---- MODULE Spec2Model ----
(***************************************************************************)
(* Placement Eligibility Streamlit application (src/app.py).               *)
(*                                                                         *)
(* The script is re-executed from top to bottom on every user interaction. *)
(* One action of the model is one interaction together with the whole      *)
(* script run it triggers: the database file check, the widgets, the       *)
(* statement that is built or looked up, DatabaseManager.execute_query     *)
(* (with the cached get_connection) and the rendering branch.              *)
(*                                                                         *)
(* The relational engine is modelled by what the statements of the script  *)
(* ask of it: inner joins on student_id, WHERE with SQL's NULL rules,      *)
(* GROUP BY / COUNT / AVG, ORDER BY (ties in an unspecified order) and     *)
(* LIMIT.  A statement the engine's tokenizer rejects fails to prepare.    *)
(***************************************************************************)
EXTENDS Integers, Sequences, FiniteSets, TLC

\* ------------------------------------------------------------------ bounds
\* Number of student identifiers in the dataset.
MaxStudents == 2
\* Number of widgets of the Filter Students page (sliders, checkboxes) that
\* may be away from their default value at once.
MaxMoved == 1

\* ------------------------------------------------------------------ values
\* SQL NULL in a numeric column and in a text column.
NULL == 0 - 1
NULLTEXT == "<NULL>"

Ids == 1..MaxStudents

RECURSIVE SumOver(_, _)
\* Sum of f[x] over the finite set S (f is a function defined on S).
SumOver(S, f) ==
    IF S = {} THEN 0
    ELSE LET x == CHOOSE y \in S : TRUE IN f[x] + SumOver(S \ {x}, f)

Range(s) == {s[i] : i \in DOMAIN s}

\* ------------------------------------------------------------------ widgets
\* The eleven st.slider widgets: column compared, table alias, min, max, default.
Sliders ==
    [ problem_solved       |-> [lo |-> 0, hi |-> 50,  value |-> 20],
      assesment_completed  |-> [lo |-> 0, hi |-> 10,  value |-> 3],
      Mini_project         |-> [lo |-> 0, hi |-> 5,   value |-> 1],
      latest_project_score |-> [lo |-> 0, hi |-> 100, value |-> 60],
      communication        |-> [lo |-> 0, hi |-> 100, value |-> 65],
      team_work            |-> [lo |-> 0, hi |-> 50,  value |-> 25],
      presentation         |-> [lo |-> 0, hi |-> 10,  value |-> 5],
      leadership           |-> [lo |-> 0, hi |-> 5,   value |-> 2],
      Critical_thinking    |-> [lo |-> 0, hi |-> 5,   value |-> 2],
      interpersonal_skill  |-> [lo |-> 0, hi |-> 100, value |-> 60],
      mock_interview_score |-> [lo |-> 0, hi |-> 100, value |-> 70] ]

\* The order of the eleven comparisons in the WHERE clause.
Metrics ==
    << "problem_solved", "assesment_completed", "Mini_project",
       "latest_project_score", "communication", "team_work", "presentation",
       "leadership", "Critical_thinking", "interpersonal_skill",
       "mock_interview_score" >>

MetricSet == Range(Metrics)

\* Positions a slider is dragged to in the model: both ends and the default.
SliderSamples(m) == {Sliders[m].lo, Sliders[m].value, Sliders[m].hi}

DefaultThresholds == [m \in MetricSet |-> Sliders[m].value]

Pages == <<"Filter Students", "View Insights">>

\* Widget values of a fresh session: st.radio and st.selectbox return their
\* first option, the sliders and checkboxes their declared defaults.
DefaultWidgets ==
    [ page |-> Pages[1],
      th |-> DefaultThresholds,
      required_certification |-> FALSE,
      required_internship |-> TRUE,
      insight_choice |-> "Total Students" ]

\* ------------------------------------------------------------------ dataset
NamePool == <<"Asha", "Ben", "Chen", "Dev">>

StudentRow(i) ==
    [ student_id |-> i,
      name |-> NamePool[((i - 1) % Len(NamePool)) + 1],
      age |-> 20 + i,
      gender |-> IF i % 2 = 0 THEN "Female" ELSE "Male",
      course_batch |-> IF i <= 2 THEN "Batch-1" ELSE "Batch-2",
      city |-> IF i = 1 THEN "Chennai" ELSE "Pune" ]

\* Rows the external data preparation step may have written, per table.
ProgrammingPool ==
    [ atDefault |-> [ problem_solved |-> 20, assesment_completed |-> 3,
                      Mini_project |-> 1, latest_project_score |-> 60,
                      Certification |-> "Yes" ],
      atMax     |-> [ problem_solved |-> 50, assesment_completed |-> 10,
                      Mini_project |-> 5, latest_project_score |-> 100,
                      Certification |-> "No" ],
      nearMiss  |-> [ problem_solved |-> 50, assesment_completed |-> 10,
                      Mini_project |-> 5, latest_project_score |-> 59,
                      Certification |-> NULLTEXT ] ]

SoftSkillsPool ==
    [ atDefault |-> [ communication |-> 65, team_work |-> 25, presentation |-> 5,
                      leadership |-> 2, Critical_thinking |-> 2,
                      interpersonal_skill |-> 60 ],
      atMax     |-> [ communication |-> 100, team_work |-> 50, presentation |-> 10,
                      leadership |-> 5, Critical_thinking |-> 5,
                      interpersonal_skill |-> 100 ],
      withNull  |-> [ communication |-> NULL, team_work |-> 50, presentation |-> 10,
                      leadership |-> 5, Critical_thinking |-> 5,
                      interpersonal_skill |-> 100 ] ]

PlacementsPool ==
    [ ready   |-> [ mock_interview_score |-> 70, internship_complted |-> "yes",
                    Placement_status |-> "Ready", Company_name |-> NULLTEXT,
                    placement_package |-> NULL ],
      placed  |-> [ mock_interview_score |-> 90, internship_complted |-> "no",
                    Placement_status |-> "Placed", Company_name |-> "Acme",
                    placement_package |-> 12 ],
      poor    |-> [ mock_interview_score |-> 49, internship_complted |-> "no",
                    Placement_status |-> "Not Ready", Company_name |-> NULLTEXT,
                    placement_package |-> NULL ],
      noScore |-> [ mock_interview_score |-> NULL, internship_complted |-> "yes",
                    Placement_status |-> "Not Ready", Company_name |-> NULLTEXT,
                    placement_package |-> NULL ] ]

Absent == "absent"

\* What the dataset holds for one student identifier: which row, if any, of
\* each of the four tables.
Profiles ==
    << [S |-> TRUE,  P |-> "atDefault", SS |-> "atDefault", PL |-> "ready"],
       [S |-> TRUE,  P |-> "atMax",     SS |-> "atMax",     PL |-> "ready"],
       [S |-> TRUE,  P |-> "atMax",     SS |-> "atMax",     PL |-> "placed"],
       [S |-> TRUE,  P |-> "nearMiss",  SS |-> "withNull",  PL |-> "ready"],
       [S |-> TRUE,  P |-> Absent,      SS |-> "atMax",     PL |-> "poor"],
       [S |-> TRUE,  P |-> "atMax",     SS |-> Absent,      PL |-> "noScore"],
       [S |-> TRUE,  P |-> "atMax",     SS |-> "atMax",     PL |-> Absent],
       [S |-> FALSE, P |-> "atMax",     SS |-> "atMax",     PL |-> "placed"] >>

\* The four tables for an assignment of profiles to student identifiers.
\* Each table is a function from the identifiers that have a row to the row
\* (without its student_id column, which is the key).
Dataset(asg) ==
    [ Students    |-> [i \in {j \in Ids : Profiles[asg[j]].S} |-> StudentRow(i)],
      Programming |-> [i \in {j \in Ids : Profiles[asg[j]].P # Absent} |->
                          ProgrammingPool[Profiles[asg[i]].P]],
      SoftSkills  |-> [i \in {j \in Ids : Profiles[asg[j]].SS # Absent} |->
                          SoftSkillsPool[Profiles[asg[i]].SS]],
      Placements  |-> [i \in {j \in Ids : Profiles[asg[j]].PL # Absent} |->
                          PlacementsPool[Profiles[asg[i]].PL]] ]

\* The datasets of the model: the students have pairwise different profiles,
\* listed in increasing order.
Assignments ==
    {asg \in [Ids -> DOMAIN Profiles] :
        \A i \in Ids, j \in Ids : i < j => asg[i] < asg[j]}

\* ------------------------------------------------------------------ statements
RECURSIVE FormatInt(_)
\* Python's str() of a non-negative int, as the f-string interpolates it:
\* the sequence of decimal digits.
FormatInt(n) ==
    IF n < 10 THEN <<n>> ELSE Append(FormatInt(n \div 10), n % 10)

RECURSIVE ParseInt(_)
\* The engine's reading of an integer literal.
ParseInt(digits) ==
    IF Len(digits) = 0 THEN 0
    ELSE 10 * ParseInt(SubSeq(digits, 1, Len(digits) - 1)) + digits[Len(digits)]

\* Variant of FlagClauses with the two checkboxes wired to each other's clause.
FlagClausesCrossed(required_certification, required_internship) ==
    (IF required_internship
     THEN << [column |-> "Certification", op |-> "=", literal |-> "Yes"] >>
     ELSE << >>)
    \o (IF required_certification
        THEN << [column |-> "internship_complted", op |-> "=", literal |-> "yes"] >>
        ELSE << >>)

\* Lines 265-266: the clause each checkbox appends when it is set.
FlagClauses(required_certification, required_internship) ==
    (IF required_certification
     THEN << [column |-> "Certification", op |-> "=", literal |-> "Yes"] >>
     ELSE << >>)
    \o (IF required_internship
        THEN << [column |-> "internship_complted", op |-> "=", literal |-> "yes"] >>
        ELSE << >>)

\* The statement the Filter Students page builds from the widget values w.
\* text: the lexemes of the statement the tokenizer sees (select list
\* abridged); where: the AND-ed comparisons, in order; order_by: the
\* descending sort keys.
eligibility_query(w) ==
    [ id |-> "eligibility_query",
      text |-> << "SELECT", "S.student_id", ",", "PL.placement_package",
                  "FROM", "Students", "S",
                  "JOIN", "Programming", "P", "ON", "S.student_id", "=", "P.student_id",
                  "JOIN", "SoftSkills", "SS", "ON", "S.student_id", "=", "SS.student_id",
                  "JOIN", "Placements", "PL", "ON", "S.student_id", "=", "PL.student_id",
                  "WHERE", "AND", ">=",
                  "ORDER", "BY", "PL.mock_interview_score", "DESC", ",",
                  "P.latest_project_score", "DESC" >>,
      where |->
          [k \in 1..Len(Metrics) |->
              [column |-> Metrics[k], op |-> ">=", literal |-> FormatInt(w.th[Metrics[k]])]]
          \o FlagClauses(w.required_certification, w.required_internship),
      order_by |-> << "mock_interview_score", "latest_project_score" >> ]

\* The keys of SQL_QUERIES, in dictionary order.
ReportNames ==
    << "Total Students",
       "Average Age of Students",
       "Students by Course Batch",
       "Average Programming Problems Solved",
       "Top 5 Students by Latest Project Score",
       "Average Soft Skills Score (Overall)",
       "Students with Internship Completed",
       "Distribution of Mock Interview Scores",
       "Students Ready for Placement",
       "Average Placement Package by Batch",
       "Students with High Mock Interview Scores and Placement Status",
       "Student with Highest Placement Package",
       "Count Students by City" >>

\* The lexemes of each catalog statement (abridged to its clauses).  The
\* "#" lexemes of the distribution statement are the two Python-style
\* comments written inside its SQL text.
QueryText(n) ==
    CASE n = "Total Students" ->
           << "SELECT", "COUNT(*)", "FROM", "Students", ";" >>
      [] n = "Average Age of Students" ->
           << "SELECT", "AVG(age)", "FROM", "Students", ";" >>
      [] n = "Students by Course Batch" ->
           << "SELECT", "course_batch", ",", "COUNT(*)", "AS", "count", "FROM", "Students",
              "GROUP", "BY", "course_batch", "ORDER", "BY", "count", "DESC", ";" >>
      [] n = "Average Programming Problems Solved" ->
           << "SELECT", "AVG(P.problem_solved)", "FROM", "Programming", "P", ";" >>
      [] n = "Top 5 Students by Latest Project Score" ->
           << "SELECT", "S.name", ",", "P.latest_project_score", "FROM", "Students", "S",
              "JOIN", "Programming", "P", "ON", "S.student_id", "=", "P.student_id",
              "ORDER", "BY", "P.latest_project_score", "DESC", "LIMIT", "5", ";" >>
      [] n = "Average Soft Skills Score (Overall)" ->
           << "SELECT", "AVG(", "COALESCE", "+", ")", "/", "6", "AS",
              "avg_soft_skills_score", "FROM", "SoftSkills", ";" >>
      [] n = "Students with Internship Completed" ->
           << "SELECT", "S.name", ",", "S.course_batch", "FROM", "Students", "S",
              "JOIN", "Placements", "PL", "ON", "S.student_id", "=", "PL.student_id",
              "WHERE", "PL.internship_complted", "=", "'yes'", ";" >>
      [] n = "Distribution of Mock Interview Scores" ->
           << "SELECT", "CASE", "#", "WHEN", "mock_interview_score", "BETWEEN",
              "THEN", "ELSE", "'N/A'", "END", "AS", "score_range", ",",
              "COUNT(*)", "AS", "num_students", "FROM", "Placements",
              "GROUP", "BY", "score_range", "#", "ORDER", "BY", "score_range", ";" >>
      [] n = "Students Ready for Placement" ->
           << "SELECT", "S.name", ",", "PL.Company_name", "FROM", "Students", "S",
              "JOIN", "Placements", "PL", "ON", "S.student_id", "=", "PL.student_id",
              "WHERE", "PL.Placement_status", "=", "'Ready'", "OR",
              "PL.Placement_status", "=", "'Placed'", ";" >>
      [] n = "Average Placement Package by Batch" ->
           << "SELECT", "S.course_batch", ",", "AVG(PL.placement_package)", "AS",
              "avg_package", "FROM", "Students", "S",
              "JOIN", "Placements", "PL", "ON", "S.student_id", "=", "PL.student_id",
              "WHERE", "PL.Placement_status", "=", "'Placed'",
              "GROUP", "BY", "S.course_batch", "ORDER", "BY", "avg_package", "DESC", ";" >>
      [] n = "Students with High Mock Interview Scores and Placement Status" ->
           << "SELECT", "S.name", ",", "PL.Company_name", "FROM", "Students", "S",
              "JOIN", "Placements", "PL", "ON", "S.student_id", "=", "PL.student_id",
              "WHERE", "PL.Placement_status", "IN", "(", "'Ready'", ",", "'Placed'", ")",
              "ORDER", "BY", "PL.mock_interview_score", "DESC", ";" >>
      [] n = "Student with Highest Placement Package" ->
           << "SELECT", "S.name", ",", "PL.placement_package", "FROM", "Students", "S",
              "JOIN", "Placements", "PL", "ON", "S.student_id", "=", "PL.student_id",
              "WHERE", "PL.Placement_status", "=", "'Placed'",
              "ORDER", "BY", "PL.placement_package", "DESC", "LIMIT", "1", ";" >>
      [] n = "Count Students by City" ->
           << "SELECT", "city", ",", "COUNT(student_id)", "AS", "NumberOfStudents",
              "FROM", "Students", "GROUP", "BY", "city",
              "ORDER", "BY", "NumberOfStudents", "DESC", ";" >>

\* The catalog: report name -> statement.
SQL_QUERIES == [n \in Range(ReportNames) |-> [id |-> n, text |-> QueryText(n)]]

\* ------------------------------------------------------------------ engine
\* The tokenizer accepts "--" and "/* */" comments only: "#" is no token.
Prepares(stmt) == \A k \in DOMAIN stmt.text : stmt.text[k] # "#"

\* A DataFrame: column names and rows (records over the columns).
DataFrame(cols, rows) == [columns |-> cols, rows |-> rows]

\* pd.DataFrame(): no columns, no rows.
EmptyDataFrame == DataFrame(<< >>, << >>)

\* DataFrame.empty
IsEmpty(df) == Len(df.rows) = 0 \/ Len(df.columns) = 0

\* ORDER BY: all orders of the rows of S in which no row comes after a row
\* it must precede; before is the set of pairs <<a, b>> of rows with a sorting
\* strictly before b.  The order of ties is unspecified.
OrderBy(S, before) ==
    {s \in [1..Cardinality(S) -> S] :
        /\ \A i, j \in DOMAIN s : i # j => s[i] # s[j]
        /\ \A i, j \in DOMAIN s : i < j => << s[j], s[i] >> \notin before}

\* No ORDER BY: the rows in any order.
AnyOrder(S) == OrderBy(S, {})

\* Variant of Limit that returns one row fewer than asked for.
LimitOneShort(s, n) == SubSeq(s, 1, (IF Len(s) < n THEN Len(s) ELSE n) - 1)

\* LIMIT n
Limit(s, n) == SubSeq(s, 1, IF Len(s) < n THEN Len(s) ELSE n)

\* Variant of DescBefore that sorts by the first key only.
DescBeforeFirstKeyOnly(a, b, keys) ==
    Len(keys) > 0 /\ a[Head(keys)] > b[Head(keys)]

RECURSIVE DescBefore(_, _, _)
\* a sorts strictly before b under ORDER BY keys[1] DESC, keys[2] DESC, ...
\* (NULL is the smallest value, so it sorts last).
DescBefore(a, b, keys) ==
    IF Len(keys) = 0 THEN FALSE
    ELSE \/ a[Head(keys)] > b[Head(keys)]
         \/ a[Head(keys)] = b[Head(keys)] /\ DescBefore(a, b, Tail(keys))

\* AVG(f) over the rows S: NULLs are skipped; kept exact as sum over count,
\* with n = 0 standing for a NULL average (no non-NULL input).
Avg(S, f) ==
    LET nn == {x \in S : f[x] # NULL}
    IN  [sum |-> SumOver(nn, f), n |-> Cardinality(nn)]

\* a > b for two averages; a NULL average is smaller than any other.
AvgGreater(a, b) ==
    /\ a.n > 0
    /\ b.n = 0 \/ a.sum * b.n > b.sum * a.n

\* COALESCE(v, 0)
Coalesce0(v) == IF v = NULL THEN 0 ELSE v

\* Variant of ClauseHolds that compares with > where the statement has >=.
ClauseHoldsStrict(row, c) ==
    IF c.op = ">="
    THEN row[c.column] # NULL /\ row[c.column] > ParseInt(c.literal)
    ELSE row[c.column] # NULLTEXT /\ row[c.column] = c.literal

\* Variant of ClauseHolds that compares with <= where the statement has >=.
ClauseHoldsAtMost(row, c) ==
    IF c.op = ">="
    THEN row[c.column] # NULL /\ row[c.column] <= ParseInt(c.literal)
    ELSE row[c.column] # NULLTEXT /\ row[c.column] = c.literal

\* One comparison of a WHERE clause on a joined row.  A comparison with
\* NULL is NULL, which WHERE treats as not true.
ClauseHolds(row, c) ==
    IF c.op = ">="
    THEN row[c.column] # NULL /\ row[c.column] >= ParseInt(c.literal)
    ELSE row[c.column] # NULLTEXT /\ row[c.column] = c.literal

\* Students S JOIN Programming P JOIN SoftSkills SS JOIN Placements PL
\* ON S.student_id = each: one row per identifier present in all four.
JoinedIds(d) ==
    DOMAIN d.Students \cap DOMAIN d.Programming
        \cap DOMAIN d.SoftSkills \cap DOMAIN d.Placements

JoinedRow(d, i) ==
    d.Students[i] @@ d.Programming[i] @@ d.SoftSkills[i] @@ d.Placements[i]

\* The possible results of the eligibility statement on dataset d.
EvalEligibility(stmt, d) ==
    LET rows == {r \in {JoinedRow(d, i) : i \in JoinedIds(d)} :
                    \A k \in DOMAIN stmt.where : ClauseHolds(r, stmt.where[k])}
        cols == << "student_id", "name", "age", "gender", "course_batch", "city",
                   "problem_solved", "assesment_completed", "Mini_project",
                   "latest_project_score", "Certification", "communication",
                   "team_work", "presentation", "leadership", "Critical_thinking",
                   "interpersonal_skill", "mock_interview_score",
                   "internship_complted", "Placement_status", "Company_name",
                   "placement_package" >>
    IN  {DataFrame(cols, s) :
            s \in OrderBy(rows,
                            {p \in rows \X rows :
                                DescBefore(p[1], p[2], stmt.order_by)})}

\* Students S JOIN Placements PL ON S.student_id = PL.student_id
StudentPlacementIds(d) == DOMAIN d.Students \cap DOMAIN d.Placements

\* The CASE expression of the distribution statement: BETWEEN is inclusive
\* at both ends and is not true of NULL.
ScoreRange(score) ==
    CASE score # NULL /\ 0 <= score /\ score <= 49   -> "0-49 (Poor)"
      [] score # NULL /\ 50 <= score /\ score <= 69  -> "50-69 (Average)"
      [] score # NULL /\ 70 <= score /\ score <= 89  -> "70-89 (Good)"
      [] score # NULL /\ 90 <= score /\ score <= 100 -> "90-100 (Excellent)"
      [] OTHER -> "N/A"

\* The five labels in the order ORDER BY score_range (text order) gives.
ScoreRangeLabels ==
    << "0-49 (Poor)", "50-69 (Average)", "70-89 (Good)", "90-100 (Excellent)", "N/A" >>

RECURSIVE DropZero(_)
\* GROUP BY yields no row for a group without members.
DropZero(rows) ==
    IF Len(rows) = 0 THEN << >>
    ELSE IF Head(rows).num_students = 0 THEN DropZero(Tail(rows))
         ELSE << Head(rows) >> \o DropZero(Tail(rows))

\* What the distribution statement asks for: one row per non-empty score
\* range with the number of Placements rows in it, by label.
EvalDistribution(d) ==
    { DataFrame(<< "score_range", "num_students" >>,
        DropZero([k \in DOMAIN ScoreRangeLabels |->
            [ score_range |-> ScoreRangeLabels[k],
              num_students |-> Cardinality({i \in DOMAIN d.Placements :
                  ScoreRange(d.Placements[i].mock_interview_score)
                      = ScoreRangeLabels[k]}) ]])) }

\* Rows of "SELECT S.name, S.course_batch, PL.mock_interview_score,
\* PL.Placement_status, PL.Company_name" for the identifiers in ids.
PlacementStatusRows(d, ids) ==
    { [ name |-> d.Students[i].name,
        course_batch |-> d.Students[i].course_batch,
        mock_interview_score |-> d.Placements[i].mock_interview_score,
        Placement_status |-> d.Placements[i].Placement_status,
        Company_name |-> d.Placements[i].Company_name ] : i \in ids }

PlacementStatusColumns ==
    << "name", "course_batch", "mock_interview_score", "Placement_status",
       "Company_name" >>

\* The possible results of catalog statement n on dataset d.
EvalReport(n, d) ==
    CASE n = "Total Students" ->
           { DataFrame(<< "COUNT(*)" >>,
                << ("COUNT(*)" :> Cardinality(DOMAIN d.Students)) >>) }
      [] n = "Average Age of Students" ->
           { DataFrame(<< "AVG(age)" >>,
                << ("AVG(age)" :> Avg(DOMAIN d.Students,
                        [i \in DOMAIN d.Students |-> d.Students[i].age])) >>) }
      [] n = "Students by Course Batch" ->
           LET rows == { [ course_batch |-> b,
                           count |-> Cardinality({i \in DOMAIN d.Students :
                                        d.Students[i].course_batch = b}) ] :
                         b \in {d.Students[i].course_batch : i \in DOMAIN d.Students} }
           IN  { DataFrame(<< "course_batch", "count" >>, s) :
                    s \in OrderBy(rows,
                            {p \in rows \X rows :
                                p[1].count > p[2].count}) }
      [] n = "Average Programming Problems Solved" ->
           { DataFrame(<< "AVG(P.problem_solved)" >>,
                << ("AVG(P.problem_solved)" :> Avg(DOMAIN d.Programming,
                        [i \in DOMAIN d.Programming |->
                            d.Programming[i].problem_solved])) >>) }
      [] n = "Top 5 Students by Latest Project Score" ->
           LET rows == { [ name |-> d.Students[i].name,
                           latest_project_score |->
                               d.Programming[i].latest_project_score ] :
                         i \in DOMAIN d.Students \cap DOMAIN d.Programming }
           IN  { DataFrame(<< "name", "latest_project_score" >>, Limit(s, 5)) :
                    s \in OrderBy(rows,
                            {p \in rows \X rows :
                                p[1].latest_project_score > p[2].latest_project_score}) }
      [] n = "Average Soft Skills Score (Overall)" ->
           LET total == [i \in DOMAIN d.SoftSkills |->
                            Coalesce0(d.SoftSkills[i].communication)
                            + Coalesce0(d.SoftSkills[i].team_work)
                            + Coalesce0(d.SoftSkills[i].presentation)
                            + Coalesce0(d.SoftSkills[i].leadership)
                            + Coalesce0(d.SoftSkills[i].Critical_thinking)
                            + Coalesce0(d.SoftSkills[i].interpersonal_skill)]
               avg == Avg(DOMAIN d.SoftSkills, total)
           IN  { DataFrame(<< "avg_soft_skills_score" >>,
                    << [avg_soft_skills_score |-> [sum |-> avg.sum, n |-> 6 * avg.n]] >>) }
      [] n = "Students with Internship Completed" ->
           LET rows == { [ name |-> d.Students[i].name,
                           course_batch |-> d.Students[i].course_batch ] :
                         i \in {j \in StudentPlacementIds(d) :
                                   d.Placements[j].internship_complted = "yes"} }
           IN  { DataFrame(<< "name", "course_batch" >>, s) : s \in AnyOrder(rows) }
      [] n = "Distribution of Mock Interview Scores" ->
           EvalDistribution(d)
      [] n = "Students Ready for Placement" ->
           LET rows == PlacementStatusRows(d,
                          {j \in StudentPlacementIds(d) :
                              \/ d.Placements[j].Placement_status = "Ready"
                              \/ d.Placements[j].Placement_status = "Placed"})
           IN  { DataFrame(PlacementStatusColumns, s) : s \in AnyOrder(rows) }
      [] n = "Average Placement Package by Batch" ->
           LET placed == {j \in StudentPlacementIds(d) :
                             d.Placements[j].Placement_status = "Placed"}
               rows == { [ course_batch |-> b,
                           avg_package |->
                               Avg({i \in placed : d.Students[i].course_batch = b},
                                   [i \in placed |-> d.Placements[i].placement_package]) ] :
                         b \in {d.Students[i].course_batch : i \in placed} }
           IN  { DataFrame(<< "course_batch", "avg_package" >>, s) :
                    s \in OrderBy(rows,
                            {p \in rows \X rows :
                                AvgGreater(p[1].avg_package, p[2].avg_package)}) }
      [] n = "Students with High Mock Interview Scores and Placement Status" ->
           LET rows == PlacementStatusRows(d,
                          {j \in StudentPlacementIds(d) :
                              d.Placements[j].Placement_status \in {"Ready", "Placed"}})
           IN  { DataFrame(PlacementStatusColumns, s) :
                    s \in OrderBy(rows,
                            {p \in rows \X rows :
                                p[1].mock_interview_score > p[2].mock_interview_score}) }
      [] n = "Student with Highest Placement Package" ->
           LET rows == { [ name |-> d.Students[i].name,
                           course_batch |-> d.Students[i].course_batch,
                           Company_name |-> d.Placements[i].Company_name,
                           placement_package |-> d.Placements[i].placement_package ] :
                         i \in {j \in StudentPlacementIds(d) :
                                   d.Placements[j].Placement_status = "Placed"} }
           IN  { DataFrame(<< "name", "course_batch", "Company_name",
                              "placement_package" >>, Limit(s, 1)) :
                    s \in OrderBy(rows,
                            {p \in rows \X rows :
                                p[1].placement_package > p[2].placement_package}) }
      [] n = "Count Students by City" ->
           LET rows == { [ city |-> c,
                           NumberOfStudents |-> Cardinality({i \in DOMAIN d.Students :
                                                   d.Students[i].city = c}) ] :
                         c \in {d.Students[i].city : i \in DOMAIN d.Students} }
           IN  { DataFrame(<< "city", "NumberOfStudents" >>, s) :
                    s \in OrderBy(rows,
                            {p \in rows \X rows :
                                p[1].NumberOfStudents > p[2].NumberOfStudents}) }

\* The possible results of running a prepared statement on dataset d.
Evaluate(stmt, d) ==
    IF stmt.id = "eligibility_query" THEN EvalEligibility(stmt, d)
    ELSE EvalReport(stmt.id, d)

\* ------------------------------------------------------------------ state
VARIABLES
    db,          \* the four tables of the database file (read-only here)
    cache,       \* st.cache_resource entry of get_connection: a handle or NoConnection
    connects,    \* number of connections sqlite3.connect has opened in this process
    widgets,     \* the session's widget values
    run          \* what the latest script run did

vars == << db, cache, connects, widgets, run >>

\* self.conn = None, and an empty cache entry.  Handles are 1, 2, ... in the
\* order sqlite3.connect returned them.
NoConnection == 0

\* How pd.read_sql_query on a prepared statement may end: a result, an
\* engine error pandas wraps in DatabaseError, or any other exception.
Outcomes == {"ok", "DatabaseError", "Exception"}

\* ------------------------------------------------------------------ DatabaseManager
\* Variant of get_connection without st.cache_resource: every call runs the
\* body on the run's new DatabaseManager and opens a connection.
get_connection_uncached(c, n, connectOK) ==
    IF connectOK
    THEN [ conn |-> n + 1, cache |-> n + 1, connects |-> n + 1, stopped |-> FALSE,
           events |-> << "sqlite3.connect", "st.success(connected)" >> ]
    ELSE [ conn |-> NoConnection, cache |-> c, connects |-> n, stopped |-> TRUE,
           events |-> << "sqlite3.connect", "st.error(Error connecting to database)",
                         "st.stop" >> ]

\* get_connection under st.cache_resource, called on a DatabaseManager whose
\* conn is None (line 73 builds a new one in every run).  c: the cache
\* entry; n: connections opened so far; connectOK: whether sqlite3.connect
\* succeeds.  A hit returns the cached handle without running the body; a
\* body that ends in st.stop() caches nothing.
get_connection(c, n, connectOK) ==
    IF c # NoConnection
    THEN [ conn |-> c, cache |-> c, connects |-> n, stopped |-> FALSE, events |-> << >> ]
    ELSE IF connectOK
    THEN [ conn |-> n + 1, cache |-> n + 1, connects |-> n + 1, stopped |-> FALSE,
           events |-> << "sqlite3.connect", "st.success(connected)" >> ]
    ELSE [ conn |-> NoConnection, cache |-> c, connects |-> n, stopped |-> TRUE,
           events |-> << "sqlite3.connect", "st.error(Error connecting to database)",
                         "st.stop" >> ]

\* Variant of Handled without the second except clause.
HandledOnlyDatabaseError(err) == err = "DatabaseError"

\* Lines 54-61: the exceptions the two except clauses of execute_query catch.
Handled(err) == err = "DatabaseError" \/ err = "Exception"

\* execute_query(query) (params is never passed).  outcome: how the read
\* ends if the statement prepares; d: the dataset.  dfs is the set of
\* DataFrames the call may return; raised tells whether an exception leaves
\* the call; stopped whether st.stop() ended the run inside get_connection,
\* which is called before the try block.
execute_query(query, c, n, connectOK, outcome, d) ==
    LET g == get_connection(c, n, connectOK)
        err == IF Prepares(query) THEN outcome ELSE "DatabaseError"
        base == [ conn |-> g.conn, cache |-> g.cache, connects |-> g.connects,
                  stopped |-> g.stopped, raised |-> FALSE ]
    IN  IF g.stopped
        THEN base @@ [ error |-> "none", dfs |-> {EmptyDataFrame}, events |-> g.events ]
        ELSE IF err = "ok"
        THEN base @@ [ error |-> "none", dfs |-> Evaluate(query, d),
                       events |-> g.events \o << "pd.read_sql_query" >> ]
        ELSE IF ~Handled(err)
        THEN [base EXCEPT !.raised = TRUE]
             @@ [ error |-> err, dfs |-> {EmptyDataFrame},
                  events |-> g.events \o << "pd.read_sql_query" >> ]
        ELSE IF err = "DatabaseError"
        THEN base @@ [ error |-> err, dfs |-> {EmptyDataFrame},
                       events |-> g.events \o << "pd.read_sql_query",
                                                 "st.error(Error executing query)" >> ]
        ELSE base @@ [ error |-> err, dfs |-> {EmptyDataFrame},
                       events |-> g.events \o << "pd.read_sql_query",
                                                 "st.error(An unexpected error occurred)" >> ]

\* ------------------------------------------------------------------ script
\* Variant of StartupHalts without the file check.
StartupNeverHalts(exists) == FALSE

\* Lines 66-69: the run stops at once when the database file is missing.
StartupHalts(exists) == ~exists

\* Variant of RenderFilter without the test for an empty result.
RenderFilterAlways(df) ==
    << "st.write(Found)", "st.dataframe", "st.download_button" >>

\* Lines 276-287: what the Filter Students page shows for the result.
RenderFilter(df) ==
    IF ~IsEmpty(df)
    THEN << "st.write(Found)", "st.dataframe", "st.download_button" >>
    ELSE << "st.info(No students found)" >>

Has(df, col) == \E k \in DOMAIN df.columns : df.columns[k] = col

\* Lines 310-324: the chart chosen from the result's column names.
RenderChart(df) ==
    IF Has(df, "count") /\ Has(df, "course_batch") THEN << "st.bar_chart" >>
    ELSE IF Has(df, "score_range") /\ Has(df, "num_students") THEN << "st.bar_chart" >>
    ELSE IF Has(df, "avg_soft_skills_score") THEN << "st.write", "st.metric" >>
    ELSE IF Has(df, "avg_package") /\ Has(df, "course_batch") THEN << "st.bar_chart" >>
    ELSE IF Has(df, "latest_project_score") /\ Has(df, "name") THEN << "st.bar_chart" >>
    ELSE IF Has(df, "NumberOfStudents") /\ Has(df, "city") THEN << "st.bar_chart" >>
    ELSE << >>

\* Lines 303-326: what the View Insights page shows for the result.
RenderInsight(df) ==
    IF ~IsEmpty(df)
    THEN << "st.subheader(Query Result)", "st.dataframe" >> \o RenderChart(df)
    ELSE << "st.info(No data returned)" >>

\* The statement the page of widget values w runs.
PageQuery(w) ==
    IF w.page = "Filter Students" THEN eligibility_query(w)
    ELSE SQL_QUERIES[w.insight_choice]

\* The record of a script run.
RunRecord(w, q, exists, x, df, shown) ==
    [ page |-> w.page, query |-> q.id, exists |-> exists,
      stopped |-> x.stopped, raised |-> x.raised, error |-> x.error,
      conn |-> x.conn, df |-> df, events |-> shown ]

\* The record of the run that the missing file stops at line 69.
HaltedAtStartup ==
    [ page |-> "none", query |-> "none", exists |-> FALSE, stopped |-> TRUE,
      raised |-> FALSE, error |-> "none", conn |-> NoConnection,
      df |-> EmptyDataFrame,
      events |-> << "st.error(Database file not found)", "st.stop" >> ]

\* Before the first run of the process.
NoRun ==
    [ page |-> "none", query |-> "none", exists |-> FALSE, stopped |-> FALSE,
      raised |-> FALSE, error |-> "none", conn |-> NoConnection,
      df |-> EmptyDataFrame, events |-> << >> ]

\* The widget values the session keeps after a run on page w.page: the
\* framework drops the value of every widget the run did not render, so the
\* widgets of the other page are back at their defaults.
Rendered(w) ==
    IF w.page = "Filter Students"
    THEN [w EXCEPT !.insight_choice = DefaultWidgets.insight_choice]
    ELSE [DefaultWidgets EXCEPT !.page = w.page, !.insight_choice = w.insight_choice]

\* One run of the script from line 1 with widget values w.  exists is what
\* os.path.exists(DB_NAME) answers in this run (the file may be removed or
\* put back between runs); after a run stopped at line 69 no widget was
\* rendered, so every widget value is dropped.
Script(w) ==
    \E exists \in BOOLEAN :
    IF StartupHalts(exists)
    THEN /\ run' = HaltedAtStartup
         /\ widgets' = DefaultWidgets
         /\ UNCHANGED << cache, connects >>
    ELSE \E q \in {PageQuery(w)} :
         \E connectOK \in (IF cache = NoConnection THEN BOOLEAN ELSE {TRUE}),
            outcome \in Outcomes :
         \E x \in {execute_query(q, cache, connects, connectOK, outcome, db)} :
           LET pre == IF w.page = "Filter Students" THEN << >> ELSE << "st.code" >>
           IN  /\ cache' = x.cache
               /\ connects' = x.connects
               /\ widgets' = Rendered(w)
               /\ \E df \in x.dfs :
                    run' = RunRecord(w, q, exists, x, df,
                              pre \o x.events \o
                              (IF x.stopped THEN << >>
                               ELSE IF x.raised THEN << "uncaught exception" >>
                               ELSE IF w.page = "Filter Students" THEN RenderFilter(df)
                               ELSE RenderInsight(df)))

\* ------------------------------------------------------------------ actions
\* Number of Filter Students widgets of w away from their default.
Moved(w) ==
    Cardinality({m \in MetricSet : w.th[m] # Sliders[m].value})
    + (IF w.required_certification # DefaultWidgets.required_certification THEN 1 ELSE 0)
    + (IF w.required_internship # DefaultWidgets.required_internship THEN 1 ELSE 0)

\* The widgets of the latest run are on screen.
OnScreen(p) == run.exists /\ widgets.page = p

\* The browser opens or reloads the page: a new session with default widgets.
Reload ==
    /\ Script(DefaultWidgets)
    /\ UNCHANGED db

\* A slider of the Filter Students page is dragged to v.
MoveSlider(m, v) ==
    /\ OnScreen("Filter Students")
    /\ v # widgets.th[m]
    /\ Moved([widgets EXCEPT !.th[m] = v]) <= MaxMoved
    /\ Script([widgets EXCEPT !.th[m] = v])
    /\ UNCHANGED db

ToggleCertification ==
    /\ OnScreen("Filter Students")
    /\ Moved([widgets EXCEPT !.required_certification = ~@]) <= MaxMoved
    /\ Script([widgets EXCEPT !.required_certification = ~@])
    /\ UNCHANGED db

ToggleInternship ==
    /\ OnScreen("Filter Students")
    /\ Moved([widgets EXCEPT !.required_internship = ~@]) <= MaxMoved
    /\ Script([widgets EXCEPT !.required_internship = ~@])
    /\ UNCHANGED db

\* The sidebar radio is set to the other page.
SelectPage(p) ==
    /\ run.exists
    /\ p # widgets.page
    /\ Script([widgets EXCEPT !.page = p])
    /\ UNCHANGED db

\* Another report is picked in the selectbox.
SelectInsight(n) ==
    /\ OnScreen("View Insights")
    /\ n # widgets.insight_choice
    /\ Script([widgets EXCEPT !.insight_choice = n])
    /\ UNCHANGED db

Init ==
    /\ db \in {Dataset(asg) : asg \in Assignments}
    /\ cache = NoConnection
    /\ connects = 0
    /\ widgets = DefaultWidgets
    /\ run = NoRun

Next ==
    \/ Reload
    \/ \E m \in MetricSet : \E v \in SliderSamples(m) : MoveSlider(m, v)
    \/ ToggleCertification
    \/ ToggleInternship
    \/ \E p \in Range(Pages) : SelectPage(p)
    \/ \E n \in Range(ReportNames) : SelectInsight(n)

Spec == Init /\ [][Next]_vars

\* ------------------------------------------------------------------ properties
\* The latest run got past the file check and the connection and handed its
\* statement to pd.read_sql_query.
Executed == run.exists /\ ~run.stopped

\* The latest run is a Filter Students run whose statement returned a result.
FilterOk ==
    /\ run.page = "Filter Students"
    /\ Executed
    /\ run.error = "none"
    /\ ~run.raised

\* The student identifiers of the rows of the latest result.
ResultIds == {run.df.rows[k].student_id : k \in DOMAIN run.df.rows}

Count(events, e) == Cardinality({k \in DOMAIN events : events[k] = e})

\* The value of metric m for student i, read from the table that holds it.
MetricValue(i, m) ==
    IF m \in {"problem_solved", "assesment_completed", "Mini_project",
              "latest_project_score"}
    THEN db.Programming[i][m]
    ELSE IF m = "mock_interview_score" THEN db.Placements[i][m]
    ELSE db.SoftSkills[i][m]

\* Student i has a row in all four tables.
HasAllRows(i) ==
    /\ i \in DOMAIN db.Students
    /\ i \in DOMAIN db.Programming
    /\ i \in DOMAIN db.SoftSkills
    /\ i \in DOMAIN db.Placements

\* Student i has all four rows and every metric at or above its threshold.
Qualifies(i, th) ==
    /\ HasAllRows(i)
    /\ \A m \in MetricSet : MetricValue(i, m) # NULL /\ MetricValue(i, m) >= th[m]

\* Student i passes the checkbox clauses of widget values w.
PassesFlags(i, w) ==
    /\ w.required_certification => db.Programming[i].Certification = "Yes"
    /\ w.required_internship => db.Placements[i].internship_complted = "yes"

C2_Step ==
    /\ FilterOk' =>
          /\ ResultIds' = {i \in Ids : Qualifies(i, widgets'.th) /\ PassesFlags(i, widgets')}
          /\ widgets'.required_internship =>
                \A k \in DOMAIN run'.df.rows : run'.df.rows[k].internship_complted = "yes"
          /\ widgets'.required_certification =>
                \A k \in DOMAIN run'.df.rows : run'.df.rows[k].Certification = "Yes"
    /\ ( /\ FilterOk
         /\ FilterOk'
         /\ ~widgets.required_certification
         /\ widgets' = [widgets EXCEPT !.required_certification = TRUE] )
       => ResultIds' \subseteq ResultIds

\* C2: the checkbox clauses restrict the result as stated, in every step.
C2_FlagsRestrictTheResult == [][C2_Step]_vars

\* Both checkboxes on, a row is kept, and a student who meets the thresholds
\* and the internship clause is left out for lack of the certification.
C2_Witness ==
    /\ FilterOk
    /\ widgets.required_certification
    /\ widgets.required_internship
    /\ ResultIds # {}
    /\ \E i \in Ids :
          /\ Qualifies(i, widgets.th)
          /\ db.Placements[i].internship_complted = "yes"
          /\ db.Programming[i].Certification # "Yes"

\* C3 (step): raising one slider, everything else unchanged, between two
\* Filter Students runs that both return a result.
RaisesOneThreshold ==
    /\ FilterOk
    /\ FilterOk'
    /\ \E m \in MetricSet :
          /\ widgets'.th[m] > widgets.th[m]
          /\ widgets' = [widgets EXCEPT !.th[m] = widgets'.th[m]]

\* C3: raising a single threshold never adds a row to the filter result.
C3_RaisingAThresholdOnlyRemovesRows ==
    [][RaisesOneThreshold => ResultIds' \subseteq ResultIds]_vars

\* A slider stands above its default, a row is kept, and a student who meets
\* the default thresholds is no longer in the result.
C3_Witness ==
    /\ FilterOk
    /\ \E m \in MetricSet : widgets.th[m] > Sliders[m].value
    /\ ResultIds # {}
    /\ \E i \in Ids :
          /\ Qualifies(i, DefaultThresholds)
          /\ PassesFlags(i, widgets)
          /\ i \notin ResultIds

\* C4: in the filter result a row with a greater mock interview score comes
\* before a row with a smaller one, and of two rows with equal mock interview
\* scores the one with the greater latest project score comes first.
C4_ResultIsOrdered ==
    FilterOk =>
        \A a, b \in DOMAIN run.df.rows :
            /\ run.df.rows[a].mock_interview_score > run.df.rows[b].mock_interview_score
                  => a < b
            /\ ( /\ run.df.rows[a].mock_interview_score = run.df.rows[b].mock_interview_score
                 /\ run.df.rows[a].latest_project_score > run.df.rows[b].latest_project_score )
                  => a < b

\* Two rows of a result with equal mock interview scores and different
\* latest project scores.
C4_Witness ==
    /\ FilterOk
    /\ \E a, b \in DOMAIN run.df.rows :
          /\ run.df.rows[a].mock_interview_score = run.df.rows[b].mock_interview_score
          /\ run.df.rows[a].latest_project_score # run.df.rows[b].latest_project_score

\* C5: when running the statement fails (a statement the engine rejects, or
\* any error raised while it runs), execute_query raises nothing: it returns
\* the empty DataFrame after exactly one st.error diagnostic, and the script
\* goes on to its "no results" notice.
C5_ExecuteQueryNeverRaises ==
    (Executed /\ run.error # "none")
        => /\ ~run.raised
           /\ IsEmpty(run.df)
           /\ Count(run.events, "st.error(Error executing query)")
                + Count(run.events, "st.error(An unexpected error occurred)") = 1
           /\ Count(run.events, "uncaught exception") = 0
           /\ run.events[Len(run.events)] \in
                 {"st.info(No students found)", "st.info(No data returned)"}

\* The distribution statement, which the engine rejects, has been run.
C5_Witness ==
    /\ Executed
    /\ run.query = "Distribution of Mock Interview Scores"
    /\ run.error = "DatabaseError"

\* The latest run is a View Insights run in which nothing went wrong except,
\* possibly, the engine rejecting the text of the statement itself.
InsightRun ==
    /\ run.page = "View Insights"
    /\ Executed
    /\ run.error = "none" \/ ~Prepares(SQL_QUERIES[run.query])

\* The dataset holds at least one fully-joined student row.
HasJoinedStudent == \E i \in Ids : HasAllRows(i)

UnfilteredReports ==
    { "Total Students", "Average Age of Students", "Students by Course Batch",
      "Average Programming Problems Solved", "Top 5 Students by Latest Project Score",
      "Average Soft Skills Score (Overall)", "Count Students by City" }

\* Some student with a Placements row has a placement status in statuses.
SomeStatus(statuses) ==
    \E i \in DOMAIN db.Students \cap DOMAIN db.Placements :
        db.Placements[i].Placement_status \in statuses

C7_AsStated ==
    (InsightRun /\ run.query = "Distribution of Mock Interview Scores")
        => /\ SumOver(DOMAIN run.df.rows,
                      [k \in DOMAIN run.df.rows |-> run.df.rows[k].num_students])
                = Cardinality(DOMAIN db.Placements)
           /\ \A i \in DOMAIN db.Placements :
                 \E k \in DOMAIN run.df.rows :
                    /\ run.df.rows[k].score_range
                          = ScoreRange(db.Placements[i].mock_interview_score)
                    /\ run.df.rows[k].num_students
                          = Cardinality({j \in DOMAIN db.Placements :
                                ScoreRange(db.Placements[j].mock_interview_score)
                                    = run.df.rows[k].score_range})

\* C8: the process opens at most one connection; no connection is open until
\* a run reaches execute_query, and every run that executes a statement uses
\* that one handle, which is the cached one.
C8_ConnectionOpenedAtMostOnce ==
    /\ connects <= 1
    /\ cache = connects
    /\ run = NoRun => connects = 0
    /\ Count(run.events, "sqlite3.connect") <= 1
    /\ Executed => run.conn = 1 /\ run.conn = cache

\* A run that executed its statement on the cached handle without connecting.
C8_Witness ==
    /\ Executed
    /\ connects = 1
    /\ Count(run.events, "sqlite3.connect") = 0
    /\ Count(run.events, "pd.read_sql_query") = 1

\* The latest run was stopped by st.stop(): at line 69 (file missing) or in
\* get_connection (connection failure).
Halted == run # NoRun /\ (~run.exists \/ run.stopped)

\* C9: a run stopped because the database file is missing or the connection
\* cannot be opened runs no statement and shows no table, chart or download.
C9_HaltedRunExecutesNothing ==
    Halted =>
        /\ \A e \in { "pd.read_sql_query", "st.dataframe", "st.bar_chart", "st.metric",
                      "st.download_button", "st.write(Found)" } :
              Count(run.events, e) = 0
        /\ IsEmpty(run.df)
        /\ run.error = "none"
        /\ run.events[Len(run.events)] = "st.stop"

\* A run stopped at the file check although a connection is cached.
C9_Witness ==
    /\ run = HaltedAtStartup
    /\ cache # NoConnection

\* C10: every run that reaches its page executes the page's statement
\* exactly once (no retry); if the statement fails the run ends with the
\* page's notice, without table, chart or download; and whatever the earlier
\* runs did, a statement that does not fail returns what it evaluates to on
\* the dataset, and a result with rows is shown.
C10_OneCyclePerInteraction ==
    Executed =>
        /\ Count(run.events, "pd.read_sql_query") = 1
        /\ run.page = widgets.page
        /\ run.query = (IF widgets.page = "Filter Students" THEN "eligibility_query"
                        ELSE widgets.insight_choice)
        /\ run.error # "none" =>
              /\ run.events[Len(run.events)] =
                    (IF widgets.page = "Filter Students"
                     THEN "st.info(No students found)" ELSE "st.info(No data returned)")
              /\ \A e \in {"st.dataframe", "st.download_button", "st.bar_chart", "st.metric"} :
                    Count(run.events, e) = 0
        /\ run.error = "none" =>
              /\ run.df \in Evaluate(PageQuery(widgets), db)
              /\ ~IsEmpty(run.df) =>
                    /\ Count(run.events, "st.dataframe") = 1
                    /\ Count(run.events, "st.download_button") =
                          (IF widgets.page = "Filter Students" THEN 1 ELSE 0)

\* A Filter Students run whose statement failed.
C10_Witness ==
    /\ Executed
    /\ run.page = "Filter Students"
    /\ run.error # "none"
    /\ run.events[Len(run.events)] = "st.info(No students found)"

====
